---------------------------- MODULE Spec2Model ----------------------------
(***************************************************************************)
(* The ETL normalisation / delta-merge pipeline of saldo-prototype         *)
(* (src/etl.py) and the categorisation page that writes back into the same *)
(* ledger file (src/pages/categorize_transactions.py,                      *)
(* src/utils/data_utils.py).                                               *)
(*                                                                         *)
(* The ledger is data/processed/transactions.csv.  The variable `file`     *)
(* holds the text cells of that file; every consumer reads it through      *)
(* pandas.read_csv (ReadCsv) and every producer writes it through          *)
(* DataFrame.to_csv (ToCsv).  A missing value (NaN / None) is the string   *)
(* NaN in a data frame and the empty cell "" in the file.                  *)
(***************************************************************************)
EXTENDS Integers, Sequences, FiniteSets, TLC

(***************************************************************************)
(* Bounds of the model.                                                    *)
(***************************************************************************)
MaxDate == 3      \* timestamps of transactions are 1..MaxDate
MaxRows == 2      \* rows of one raw file
MaxClock == 2     \* readings of datetime.now(): operations of one behaviour
SampleCount == 2  \* rows of the demo data frame (20 in the source)

(***************************************************************************)
(* Values.                                                                 *)
(***************************************************************************)
NaT == 0                    \* pandas NaT: a date that did not parse
NaN == "<NaN>"              \* pandas NaN / None in a data frame
NoCategory == 0             \* category_id None / NaN
NoTimestamp == 0            \* created_at / updated_at column absent
Dates == 1..MaxDate

\* data/metadata/accounts.csv: internal id, external number and the id of the
\* account's import preset (0 for a missing one; 99 is the id of no preset).
\* The second account's internal id is the first account's external number.
Accounts == << [id |-> 1, number |-> 2, default_import_preset_id |-> 0],
               [id |-> 2, number |-> 7, default_import_preset_id |-> 99],
               [id |-> 3, number |-> 4, default_import_preset_id |-> 4] >>

\* Names of directories under data/raw (the account_id argument, a string).
DirNames == {"2", "7", "9", "abc"}

\* int(account_id): ok = FALSE stands for ValueError.
ParseInt(s) ==
    CASE s = "2" -> [ok |-> TRUE, value |-> 2]
      [] s = "4" -> [ok |-> TRUE, value |-> 4]
      [] s = "7" -> [ok |-> TRUE, value |-> 7]
      [] s = "9" -> [ok |-> TRUE, value |-> 9]
      [] OTHER   -> [ok |-> FALSE, value |-> 0]

\* accounts[accounts['number'] == n]: the matching rows, in table order.
AccountRows(n) == SelectSeq(Accounts, LAMBDA a : a.number = n)

\* ids of data/metadata/categories.csv offered by the category selector
CategoryIds == {95, 96}

(***************************************************************************)
(* Raw files: rows after pd.read_csv, with the date cell already parsed    *)
(* (NaT when unparseable), the amount cell numeric and the description     *)
(* cell either text or missing.                                            *)
(***************************************************************************)
RawDates == Dates \cup {NaT}
RawAmounts == {5}
RawDescriptions == {"a", NaN}
RawRows == [date : RawDates, amount : RawAmounts, description : RawDescriptions]
RawFiles == UNION { [1..n -> RawRows] : n \in 0..MaxRows }

(***************************************************************************)
(* Sequences.                                                              *)
(***************************************************************************)
RECURSIVE SeqMin(_), SeqMax(_)
SeqMin(s) == IF Len(s) = 1 THEN s[1]
             ELSE LET m == SeqMin(Tail(s)) IN IF s[1] <= m THEN s[1] ELSE m
SeqMax(s) == IF Len(s) = 1 THEN s[1]
             ELSE LET m == SeqMax(Tail(s)) IN IF s[1] >= m THEN s[1] ELSE m

MapSeq(s, F(_)) == [i \in 1..Len(s) |-> F(s[i])]

(***************************************************************************)
(* generate_transaction_id: the digest of "{account_id}_{date}_{amount}_   *)
(* {description}", kept as the tuple of the formatted parts (the digest is *)
(* taken to be injective on them, and the id column to be read back from   *)
(* the file as text: some digest in it has a letter among its 12 digits).  *)
(***************************************************************************)
generate_transaction_id(account_id, date, amount, description) ==
    << "md5", account_id, date, amount, description >>

\* Series.astype(str).fillna(''): a missing cell becomes the text "nan"
\* before fillna can see it.
AsTypeStr(cell) == IF cell = NaN THEN "nan" ELSE cell

\* lambda x: 'debit' if x < 0 else 'credit' if x > 0 else 'zero'
InferType(x) == IF x < 0 THEN "debit" ELSE IF x > 0 THEN "credit" ELSE "zero"

(***************************************************************************)
(* normalize_to_canonical_schema for a raw file with the literal columns   *)
(* date, description, amount and no preset.                                *)
(***************************************************************************)
NormalizeRow(raw, account_row, now) ==
    LET description == AsTypeStr(raw.description)
        account_id == account_row.id
    IN [ id |-> generate_transaction_id(account_id, raw.date, raw.amount, description),
         date |-> raw.date,
         description |-> description,
         amount |-> raw.amount,
         created_at |-> now,
         updated_at |-> now,
         account_id |-> account_id,
         category_id |-> NoCategory,
         transaction_type |-> InferType(raw.amount) ]

\* a frame with a missing date dropped whole
DropAllIfAnyNaDate(df) == IF \E i \in DOMAIN df : df[i].date = NaT THEN << >> ELSE df

\* normalized.dropna(subset=['date'])
DropNaDate(df) == SelectSeq(df, LAMBDA r : r.date # NaT)

normalize_to_canonical_schema(raw_df, account_row, now) ==
    DropNaDate(MapSeq(raw_df, LAMBDA raw : NormalizeRow(raw, account_row, now)))

(***************************************************************************)
(* The ledger file.                                                        *)
(***************************************************************************)
\* Strings pandas.read_csv reads as missing (its default na_values).
NAStrings == {"", "nan", "NaN", "NA", "N/A", "NULL", "null", "None", "n/a", "<NA>"}

\* DataFrame.to_csv(index=False): a missing value is written as the empty cell.
ToCsvCell(v) == IF v = NaN THEN "" ELSE v
ToCsvRow(r) == [r EXCEPT !.description = ToCsvCell(r.description),
                         !.transaction_type = ToCsvCell(r.transaction_type)]
ToCsv(df) == MapSeq(df, ToCsvRow)

\* pd.read_csv: a text cell holding one of the NA strings is read as missing.
ReadCsvCell(c) == IF c \in NAStrings THEN NaN ELSE c
ReadCsvRow(c) == [c EXCEPT !.description = ReadCsvCell(c.description),
                           !.transaction_type = ReadCsvCell(c.transaction_type)]
ReadCsv(cells) == MapSeq(cells, ReadCsvRow)

NoFile == [exists |-> FALSE, rows |-> << >>]
WrittenFile(df) == [exists |-> TRUE, rows |-> ToCsv(df)]

\* open(path, 'w'): the file exists and holds nothing, not even the header
\* line; pd.read_csv raises EmptyDataError on it.  A written ledger is never
\* without rows, so a file without rows is this one.
TruncatedFile == [exists |-> TRUE, rows |-> << >>]
Unreadable(f) == f.exists /\ f.rows = << >>

(***************************************************************************)
(* sort_values(['account_id', 'date']): a stable sort, missing dates last. *)
(***************************************************************************)
DateKey(d) == IF d = NaT THEN MaxDate + 1 ELSE d
SortsAfter(a, b) ==
    \/ a.account_id > b.account_id
    \/ a.account_id = b.account_id /\ DateKey(a.date) > DateKey(b.date)

RECURSIVE InsertSorted(_, _)
InsertSorted(sorted, r) ==
    IF sorted = << >> THEN << r >>
    ELSE IF SortsAfter(sorted[Len(sorted)], r)
         THEN Append(InsertSorted(SubSeq(sorted, 1, Len(sorted) - 1), r),
                     sorted[Len(sorted)])
         ELSE Append(sorted, r)

\* the frame left in the order of the concatenation
ConcatOrder(df) == df

RECURSIVE SortValues(_)
SortValues(df) ==
    IF df = << >> THEN << >>
    ELSE InsertSorted(SortValues(SubSeq(df, 1, Len(df) - 1)), df[Len(df)])

(***************************************************************************)
(* delta_load_transactions(new_df, account_id, accounts) on ledger file f. *)
(* The result names the outcome, the file afterwards and the data frame    *)
(* returned.                                                               *)
(***************************************************************************)
ValidDates(df) == SelectSeq(MapSeq(df, LAMBDA r : r.date), LAMBDA d : d # NaT)

\* InWindow with the comparisons strict: rows dated min_date or max_date stay
InWindowOpen(r, account_internal_id, min_date, max_date) ==
    /\ r.account_id = account_internal_id
    /\ r.date # NaT
    /\ r.date > min_date
    /\ r.date < max_date

\* InWindow with the upper comparison strict: rows dated max_date stay
InWindowBelowMax(r, account_internal_id, min_date, max_date) ==
    /\ r.account_id = account_internal_id
    /\ r.date # NaT
    /\ r.date >= min_date
    /\ r.date < max_date

\* InWindow without the upper comparison: every later row goes too
InWindowFromMin(r, account_internal_id, min_date, max_date) ==
    /\ r.account_id = account_internal_id
    /\ r.date # NaT
    /\ r.date >= min_date

\* InWindow sparing the rows that have a category
InWindowUncategorized(r, account_internal_id, min_date, max_date) ==
    /\ r.account_id = account_internal_id
    /\ r.date # NaT
    /\ r.date >= min_date
    /\ r.date <= max_date
    /\ r.category_id = NoCategory

\* the mask of lines 270-274 on a row of existing_df
InWindow(r, account_internal_id, min_date, max_date) ==
    /\ r.account_id = account_internal_id
    /\ r.date # NaT
    /\ r.date >= min_date
    /\ r.date <= max_date

\* the external number taken for the internal id
AccountNumberAsId(account_id) == ParseInt(account_id).value

\* account_row.iloc[0]['id'] for accounts['number'] == int(account_id)
AccountInternalId(account_id) == AccountRows(ParseInt(account_id).value)[1].id

\* a return before the write that writes an empty frame first
AbortedWritingEmpty(f, why) ==
    [outcome |-> why, file |-> WrittenFile(<< >>), result |-> << >>,
     internal_id |-> 0, min_date |-> NaT, max_date |-> NaT]

\* the early returns (and the exceptions raised) before the write: the file
\* is not written, the result is the empty data frame
Aborted(f, why) == [outcome |-> why, file |-> f, result |-> << >>,
                    internal_id |-> 0, min_date |-> NaT, max_date |-> NaT]

delta_load_transactions(f, new_df, account_id) ==
    IF new_df = << >> THEN Aborted(f, "empty")
    ELSE IF ValidDates(new_df) = << >> THEN Aborted(f, "no_dates")
    ELSE IF ~ParseInt(account_id).ok THEN Aborted(f, "ValueError")
    ELSE IF AccountRows(ParseInt(account_id).value) = << >> THEN Aborted(f, "no_account")
    ELSE IF Unreadable(f) THEN Aborted(f, "EmptyDataError")
    ELSE
      LET min_date == SeqMin(ValidDates(new_df))
          max_date == SeqMax(ValidDates(new_df))
          account_internal_id == AccountInternalId(account_id)
          existing_df == ReadCsv(f.rows)
          kept == SelectSeq(existing_df,
                     LAMBDA r : ~InWindow(r, account_internal_id, min_date, max_date))
          combined_df == SortValues(IF f.exists THEN kept \o new_df ELSE new_df)
      IN [outcome |-> "merged", file |-> WrittenFile(combined_df),
          result |-> combined_df, internal_id |-> account_internal_id,
          min_date |-> min_date, max_date |-> max_date]

(***************************************************************************)
(* process_account(account_id, ...) for a directory holding one CSV file   *)
(* raw_df: the account lookup, then one turn of the loop over csv_files.   *)
(* The accounts of these directories have no preset.                       *)
(***************************************************************************)
Skipped(f, why) == [outcome |-> why, file |-> f, result |-> << >>,
                    internal_id |-> 0, min_date |-> NaT, max_date |-> NaT,
                    new_df |-> << >>]

process_account(f, account_id, raw_df, now) ==
    IF ~ParseInt(account_id).ok THEN Skipped(f, "invalid_account_id")
    ELSE IF AccountRows(ParseInt(account_id).value) = << >> THEN Skipped(f, "account_not_found")
    ELSE IF raw_df = << >> THEN Skipped(f, "empty_file")
    ELSE
      LET account_row == AccountRows(ParseInt(account_id).value)[1]
          normalized_df == normalize_to_canonical_schema(raw_df, account_row, now)
      IN IF normalized_df = << >> THEN Skipped(f, "nothing_normalized")
         ELSE [new_df |-> normalized_df]
                 @@ delta_load_transactions(f, normalized_df, account_id)

(***************************************************************************)
(* The categorisation page (show): load_transactions, the edit of the      *)
(* category of the rows with the clicked row's id, save_transactions.      *)
(***************************************************************************)
\* create_sample_transactions: the demo rows, which have no created_at and
\* no updated_at column.
SampleRow(i) ==
    [ id |-> << "tx", i >>,
      date |-> (i % MaxDate) + 1,
      description |-> "SAMPLE",
      amount |-> -5,
      created_at |-> NoTimestamp,
      updated_at |-> NoTimestamp,
      account_id |-> 16,
      category_id |-> NoCategory,
      transaction_type |-> "Debit" ]
create_sample_transactions == [k \in 1..SampleCount |-> SampleRow(k - 1)]

\* the demo rows stand in when the file is absent or cannot be read
load_transactions(f) ==
    IF f.exists /\ ~Unreadable(f) THEN ReadCsv(f.rows) ELSE create_sample_transactions

save_transactions(transactions_df) == WrittenFile(transactions_df)

\* the assignment without the mask on id
SetCategoryEveryRow(r, row_id, category) == [r EXCEPT !.category_id = category]

\* transactions_df.loc[transactions_df['id'] == row_id, 'category_id'] = category
SetCategoryRow(r, row_id, category) ==
    IF r.id = row_id THEN [r EXCEPT !.category_id = category] ELSE r
SetCategory(transactions_df, row_id, category) ==
    MapSeq(transactions_df, LAMBDA r : SetCategoryRow(r, row_id, category))

(***************************************************************************)
(* State.                                                                  *)
(***************************************************************************)
VARIABLES
    file,    \* data/processed/transactions.csv
    clock,   \* datetime.now()
    last,    \* the last operation: its arguments, the file before it, its result
    prev,    \* the operation before the last one: its arguments and outcome
    pc,      \* position of each process that runs step by step
    loc,     \* the local variables of each such process
    events   \* the loads and writes of those processes, in order

vars == << file, clock, last, prev, pc, loc, events >>

Procs == {"w1", "w2"}

NoOp == [op |-> "none", pre |-> NoFile, account_id |-> "", raw_df |-> << >>,
         new_df |-> << >>, now |-> 0,
         outcome |-> "", result |-> << >>, internal_id |-> 0,
         min_date |-> NaT, max_date |-> NaT, target |-> << >>, category |-> NoCategory,
         loaded |-> << >>]

NoPrev == [op |-> "none", account_id |-> "", raw_df |-> << >>, outcome |-> ""]
Summary(l) == [op |-> l.op, account_id |-> l.account_id, raw_df |-> l.raw_df,
               outcome |-> l.outcome]

NoLocals == [pre |-> NoFile, post |-> NoFile, account_id |-> "", new_df |-> << >>,
             internal_id |-> 0, min_date |-> NaT, max_date |-> NaT]

Init ==
    /\ file = NoFile
    /\ clock = 1
    /\ last = NoOp
    /\ prev = NoPrev
    /\ pc = [p \in Procs |-> "idle"]
    /\ loc = [p \in Procs |-> NoLocals]
    /\ events = << >>

(***************************************************************************)
(* Operations, one at a time (the pipeline is a one-shot batch process and *)
(* the page handles one click per script run).                             *)
(***************************************************************************)
ReadsFile(outcome) == outcome \notin {"invalid_account_id", "account_not_found"}

Record(op, pre, account_id, raw_df, now, r) ==
    [NoOp EXCEPT !.op = op, !.pre = pre, !.account_id = account_id,
                 !.raw_df = IF ReadsFile(r.outcome) THEN raw_df ELSE << >>,
                 !.now = now,
                 !.new_df = r.new_df, !.outcome = r.outcome, !.result = r.result,
                 !.internal_id = r.internal_id, !.min_date = r.min_date,
                 !.max_date = r.max_date]

\* python etl.py on a raw directory named account_id that holds raw_df
ProcessAccount ==
    \E account_id \in DirNames, raw_df \in RawFiles :
        LET r == process_account(file, account_id, raw_df, clock) IN
        /\ clock <= MaxClock
        /\ file' = r.file
        /\ clock' = clock + 1
        /\ last' = Record("process_account", file, account_id, raw_df, clock, r)
        /\ prev' = Summary(last)
        /\ UNCHANGED << pc, loc, events >>

RecordEdit(op, pre, loaded, row_id, category, now) ==
    [NoOp EXCEPT !.op = op, !.pre = pre, !.loaded = loaded, !.target = row_id,
                 !.category = category, !.outcome = "saved", !.now = now]

\* the save button of a shown row, with a category selected
CategorizeSave ==
    LET transactions_df == load_transactions(file) IN
    \E i \in DOMAIN transactions_df, selected_category \in CategoryIds :
        /\ clock <= MaxClock
        /\ file' = save_transactions(
                      SetCategory(transactions_df, transactions_df[i].id, selected_category))
        /\ clock' = clock + 1
        /\ last' = RecordEdit("save", file, transactions_df, transactions_df[i].id,
                              selected_category, clock)
        /\ prev' = Summary(last)
        /\ UNCHANGED << pc, loc, events >>

\* the clear button, shown for a categorised row
CategorizeClear ==
    LET transactions_df == load_transactions(file) IN
    \E i \in DOMAIN transactions_df :
        /\ clock <= MaxClock
        /\ transactions_df[i].category_id # NoCategory
        /\ file' = save_transactions(
                      SetCategory(transactions_df, transactions_df[i].id, NoCategory))
        /\ clock' = clock + 1
        /\ last' = RecordEdit("clear", file, transactions_df, transactions_df[i].id,
                              NoCategory, clock)
        /\ prev' = Summary(last)
        /\ UNCHANGED << pc, loc, events >>

Next == ProcessAccount \/ CategorizeSave \/ CategorizeClear

Spec == Init /\ [][Next]_vars

(***************************************************************************)
(* Properties.  The ledger as its readers see it is ReadCsv(file.rows).    *)
(***************************************************************************)
Ledger == ReadCsv(file.rows)
LedgerBefore == ReadCsv(last.pre.rows)

Count(s, v) == Cardinality({i \in DOMAIN s : s[i] = v})
SameBag(s, t) == /\ Len(s) = Len(t)
                 /\ \A i \in DOMAIN s : Count(s, s[i]) = Count(t, s[i])

Merged == last.op = "process_account" /\ last.outcome = "merged"

\* C1 (as claimed): after any sequence of pipeline runs the persisted ledger
\* holds no two rows with the same id; two raw rows of one file that agree on
\* (account_id, date, amount, description) collapse to one ledger row.
C1_NoDuplicateIds ==
    \A i, j \in DOMAIN Ledger : i # j => Ledger[i].id # Ledger[j].id


\* The account a run is for and the window of its batch, read off the
\* accounts table and the batch.
AccountOfNumber(account_id) ==
    CHOOSE a \in {Accounts[k] : k \in DOMAIN Accounts} :
        a.number = ParseInt(account_id).value
DatesOf(df) == {df[k].date : k \in DOMAIN df}
MinOf(df) == CHOOSE d \in DatesOf(df) : \A e \in DatesOf(df) : d <= e
MaxOf(df) == CHOOSE d \in DatesOf(df) : \A e \in DatesOf(df) : d >= e
InWindowOf(r, account_id, df) ==
    /\ r.account_id = AccountOfNumber(account_id).id
    /\ MinOf(df) <= r.date
    /\ r.date <= MaxOf(df)

ClaimAccount == AccountOfNumber(last.account_id)
ClaimMin == MinOf(last.new_df)
ClaimMax == MaxOf(last.new_df)
OfAccountInWindow(r) == InWindowOf(r, last.account_id, last.new_df)
OfAccountOutsideWindow(r) ==
    r.account_id = ClaimAccount.id /\ (r.date < ClaimMin \/ r.date > ClaimMax)

\* the batch as a reader of the file sees its rows
NewRowsAsRead == ReadCsv(ToCsv(last.new_df))

Rerun ==
    /\ Merged
    /\ prev.op = "process_account" /\ prev.outcome = "merged"
    /\ prev.account_id = last.account_id
    /\ prev.raw_df = last.raw_df

\* C2 (as claimed): running the pipeline on the same raw file for the same
\* account twice in succession leaves the ledger identical, field by field, to
\* the ledger after running it once.
C2_RerunLeavesLedgerIdentical == Rerun => file = last.pre

WithoutTimes(rows) ==
    MapSeq(rows, LAMBDA r : [r EXCEPT !.created_at = NoTimestamp,
                                      !.updated_at = NoTimestamp])

\* C2 (amended): the second run leaves the same rows in the same order with the
\* same values in every field except created_at and updated_at; the rows of
\* the re-imported window carry the time of the second run in both, and every
\* other row is identical.
C2_RerunSameUpToTimestamps ==
    Rerun =>
        /\ WithoutTimes(file.rows) = WithoutTimes(last.pre.rows)
        /\ \A i \in DOMAIN file.rows :
              IF OfAccountInWindow(file.rows[i])
              THEN /\ file.rows[i].created_at = last.now
                   /\ file.rows[i].updated_at = last.now
              ELSE file.rows[i] = last.pre.rows[i]

\* a rerun: the second run has replaced the rows of the first
C2_Witness ==
    /\ Rerun
    /\ \E i \in DOMAIN file.rows : OfAccountInWindow(file.rows[i])
    /\ file # last.pre

\* C3: after a successful merge the ledger rows of the account dated within
\* [min_date, max_date] are exactly the new rows: every row of the account
\* that was in the window before is gone unless the batch holds it, and every
\* new row is there.
C3_WindowHoldsExactlyNewRows ==
    Merged => SameBag(SelectSeq(Ledger, OfAccountInWindow), NewRowsAsRead)

\* a merge that found in the window a row whose id the batch does not hold
C3_Witness ==
    /\ Merged
    /\ \E i \in DOMAIN LedgerBefore :
          /\ OfAccountInWindow(LedgerBefore[i])
          /\ \A k \in DOMAIN last.new_df : last.new_df[k].id # LedgerBefore[i].id

\* C4: a successful merge leaves every row of the account dated before
\* min_date or after max_date in the ledger, unchanged.
C4_RowsOutsideWindowKept ==
    Merged =>
        \A i \in DOMAIN LedgerBefore :
            OfAccountOutsideWindow(LedgerBefore[i])
                => Count(Ledger, LedgerBefore[i]) = Count(LedgerBefore, LedgerBefore[i])

\* a merge that found a row of the account before its window and one after it
C4_Witness ==
    /\ Merged
    /\ \E i, j \in DOMAIN LedgerBefore :
          /\ LedgerBefore[i].account_id = ClaimAccount.id
          /\ LedgerBefore[j].account_id = ClaimAccount.id
          /\ LedgerBefore[i].date < ClaimMin
          /\ LedgerBefore[j].date > ClaimMax

\* C5: a successful merge leaves every row of another account in the ledger,
\* unchanged, whatever its date, also when that account's internal id is the
\* external number of the account merged.
C5_OtherAccountsKept ==
    Merged =>
        \A i \in DOMAIN LedgerBefore :
            LedgerBefore[i].account_id # ClaimAccount.id
                => Count(Ledger, LedgerBefore[i]) = Count(LedgerBefore, LedgerBefore[i])

\* a merge that found, dated in its window, a row of the account whose
\* internal id is the merged account's external number
C5_Witness ==
    /\ Merged
    /\ \E i \in DOMAIN LedgerBefore :
          /\ LedgerBefore[i].account_id = ParseInt(last.account_id).value
          /\ LedgerBefore[i].account_id # ClaimAccount.id
          /\ ClaimMin <= LedgerBefore[i].date
          /\ LedgerBefore[i].date <= ClaimMax

Edited == last.op \in {"save", "clear"}

\* C9: a save or clear on transaction id X leaves every row of the ledger in
\* its place with the same id, date, amount, account_id and every other field
\* but category_id and updated_at, and leaves the rows whose id is not X
\* identical.
C9_EditTouchesOnlyCategory ==
    Edited =>
        \A i \in DOMAIN LedgerBefore :
            /\ i \in DOMAIN Ledger
            /\ [Ledger[i] EXCEPT !.category_id = NoCategory, !.updated_at = NoTimestamp]
                 = [LedgerBefore[i] EXCEPT !.category_id = NoCategory,
                                           !.updated_at = NoTimestamp]
            /\ LedgerBefore[i].id # last.target => Ledger[i] = LedgerBefore[i]

\* a save that changed the category of one row of a ledger holding another id
C9_Witness ==
    /\ last.op = "save"
    /\ \E i, j \in DOMAIN LedgerBefore :
          /\ LedgerBefore[i].id = last.target
          /\ LedgerBefore[j].id # last.target
          /\ Ledger[i].category_id # LedgerBefore[i].category_id

\* C10 (as claimed): an edit of a row of the ledger sets the updated_at of the
\* rows it categorises to the time of the edit.
C10_EditSetsUpdatedAt ==
    (Edited /\ last.pre.exists) =>
        \A i \in DOMAIN Ledger :
            Ledger[i].id = last.target => Ledger[i].updated_at = last.now


(***************************************************************************)
(* delta_load_transactions called on its own, with any batch and any       *)
(* account_id.  The batch is normalised for an account of the table but    *)
(* keeps its rows without a date.                                          *)
(***************************************************************************)
DeltaLoadCall ==
    \E account_id \in DirNames, k \in DOMAIN Accounts, raw_df \in RawFiles :
        LET new_df == MapSeq(raw_df, LAMBDA raw : NormalizeRow(raw, Accounts[k], clock))
            r == delta_load_transactions(file, new_df, account_id)
        IN
        /\ clock <= MaxClock
        /\ file' = r.file
        /\ clock' = clock + 1
        /\ last' = [NoOp EXCEPT !.op = "delta_load", !.pre = file,
                                !.account_id = account_id, !.new_df = new_df,
                                !.now = clock, !.outcome = r.outcome,
                                !.result = r.result]
        /\ prev' = Summary(last)
        /\ UNCHANGED << pc, loc, events >>

NextMerge == DeltaLoadCall

SpecMerge == Init /\ [][NextMerge]_vars

\* C6: a merge called with an empty batch, with a batch that has no valid
\* date, or with an account number that no account of the table has leaves
\* the file as it was, returns the empty data frame and raises nothing.
\* (An account_id that is not a number is not an account number: int() raises
\* ValueError on it at line 253, outcome "ValueError".)
C6_PreconditionFailure ==
    /\ last.op = "delta_load"
    /\ \/ last.new_df = << >>
       \/ \A k \in DOMAIN last.new_df : last.new_df[k].date = NaT
       \/ /\ ParseInt(last.account_id).ok
          /\ \A k \in DOMAIN Accounts :
                Accounts[k].number # ParseInt(last.account_id).value

C6_FailedPreconditionLeavesLedger ==
    C6_PreconditionFailure =>
        /\ file = last.pre
        /\ last.result = << >>
        /\ last.outcome \in {"empty", "no_dates", "no_account"}

\* a merge of dated rows for an unknown account number into a ledger with rows
C6_Witness ==
    /\ C6_PreconditionFailure
    /\ last.outcome = "no_account"
    /\ last.pre.rows # << >>
    /\ \E k \in DOMAIN last.new_df : last.new_df[k].date # NaT

(***************************************************************************)
(* The pipeline step by step: what a run does up to the write (Load), and  *)
(* the write of line 292.                                                  *)
(***************************************************************************)
Locals(pre, account_id, r) ==
    [pre |-> pre, post |-> r.file, account_id |-> account_id, new_df |-> r.new_df,
     internal_id |-> r.internal_id, min_date |-> r.min_date, max_date |-> r.max_date]

\* process_account down to line 288: the file is read, combined_df computed
Load(p) ==
    \E account_id \in DirNames, raw_df \in RawFiles :
        LET r == process_account(file, account_id, raw_df, clock) IN
        /\ pc[p] = "idle"
        /\ clock <= MaxClock
        /\ clock' = clock + 1
        /\ IF r.outcome = "merged"
           THEN /\ pc' = [pc EXCEPT ![p] = "loaded"]
                /\ loc' = [loc EXCEPT ![p] = Locals(file, account_id, r)]
                /\ events' = Append(events, << "load", p >>)
           ELSE UNCHANGED << pc, loc, events >>
        /\ UNCHANGED << file, last, prev >>

\* the write that first merges the batch into the file as it is now
WrittenAfterReload(f, locals) ==
    delta_load_transactions(f, locals.new_df, locals.account_id).file

\* combined_df.to_csv(TRANSACTIONS_FILE): what the file holds afterwards,
\* whatever it held
Written(f, locals) == locals.post

\* line 292, as one step
Persist(p) ==
    /\ pc[p] = "loaded"
    /\ file' = Written(file, loc[p])
    /\ pc' = [pc EXCEPT ![p] = "idle"]
    /\ events' = Append(events, << "persist", p >>)
    /\ UNCHANGED << clock, last, prev, loc >>

NextConc == \E p \in Procs : Load(p) \/ Persist(p)

SpecConc == Init /\ [][NextConc]_vars

(***************************************************************************)
(* The write of line 292 as the file system sees it: open() truncates the  *)
(* file, the rows follow, and the process may be killed at any point.      *)
(***************************************************************************)
Writer == "w1"

LoadAlone == Load(Writer)

OpenFile ==
    /\ pc[Writer] = "loaded"
    /\ file' = TruncatedFile
    /\ pc' = [pc EXCEPT ![Writer] = "writing"]
    /\ UNCHANGED << clock, last, prev, loc, events >>

WriteRow ==
    /\ pc[Writer] = "writing"
    /\ Len(file.rows) < Len(loc[Writer].post.rows)
    /\ file' = [file EXCEPT !.rows = Append(@, loc[Writer].post.rows[Len(@) + 1])]
    /\ UNCHANGED << clock, last, prev, pc, loc, events >>

CloseFile ==
    /\ pc[Writer] = "writing"
    /\ Len(file.rows) = Len(loc[Writer].post.rows)
    /\ pc' = [pc EXCEPT ![Writer] = "idle"]
    /\ events' = Append(events, << "persist", Writer >>)
    /\ UNCHANGED << file, clock, last, prev, loc >>

Interrupt ==
    /\ pc[Writer] = "writing"
    /\ pc' = [pc EXCEPT ![Writer] = "idle"]
    /\ events' = Append(events, << "killed", Writer >>)
    /\ UNCHANGED << file, clock, last, prev, loc >>

NextCrash == LoadAlone \/ OpenFile \/ WriteRow \/ CloseFile \/ Interrupt

SpecCrash == Init /\ [][NextCrash]_vars

\* C7 (as claimed): at every moment, also during the write and after a write
\* that was interrupted, the file is the whole ledger of before the merge or
\* the whole sorted ledger of after it.
C7_ReaderSeesWholeSnapshot ==
    file = loc[Writer].pre \/ file = loc[Writer].post


(***************************************************************************)
(* Two runs of the pipeline, p and then q the last to write.               *)
(***************************************************************************)
LastEvents(n) == SubSeq(events, Len(events) - n + 1, Len(events))

\* both read the file before either wrote it
Overlapped(p, q) ==
    /\ p # q
    /\ Len(events) >= 4
    /\ LastEvents(4) \in { << <<"load", p>>, <<"load", q>>, <<"persist", p>>, <<"persist", q>> >>,
                           << <<"load", q>>, <<"load", p>>, <<"persist", p>>, <<"persist", q>> >> }

\* q read the file after p wrote it
Serialized(p, q) ==
    /\ p # q
    /\ Len(events) >= 4
    /\ LastEvents(4) = << <<"load", p>>, <<"persist", p>>, <<"load", q>>, <<"persist", q>> >>

\* a reader of the file finds the row of a batch
FileHolds(row) == \E i \in DOMAIN Ledger : Ledger[i] = ReadCsvRow(ToCsvRow(row))

LastWriterWins(p, q) ==
    Overlapped(p, q) =>
        /\ file = loc[q].post
        /\ \A k \in DOMAIN loc[p].new_df : ~FileHolds(loc[p].new_df[k])

\* C8 (as claimed): when both merges read the file before either writes it,
\* the file ends as the snapshot of the merge that writes last, without the
\* rows only the earlier writer contributed; when the second merge reads the
\* file after the first has written it, the rows of both are in the file.
C8_LastWriterWinsElseBothPresent ==
    \A p, q \in Procs :
        /\ LastWriterWins(p, q)
        /\ Serialized(p, q) =>
              /\ \A k \in DOMAIN loc[p].new_df : FileHolds(loc[p].new_df[k])
              /\ \A k \in DOMAIN loc[q].new_df : FileHolds(loc[q].new_df[k])

\* C8 (amended): when both merges read the file before either writes it, the
\* file ends as the snapshot of the merge that writes last, without the rows
\* only the earlier writer contributed; when the second merge reads the file
\* after the first has written it, the file holds every row of the second
\* batch, and a row of the first batch exactly when it is not a row of the
\* second merge's account dated within the second batch's window.
C8_LastWriterWinsElseLaterOnEarlier ==
    \A p, q \in Procs :
        /\ LastWriterWins(p, q)
        /\ Serialized(p, q) =>
              /\ \A k \in DOMAIN loc[q].new_df : FileHolds(loc[q].new_df[k])
              /\ \A k \in DOMAIN loc[p].new_df :
                    FileHolds(loc[p].new_df[k])
                       <=> ~InWindowOf(loc[p].new_df[k], loc[q].account_id, loc[q].new_df)

\* two merges for different accounts that both read the file before either
\* wrote it
C8_Witness ==
    \E p, q \in Procs :
        /\ Overlapped(p, q)
        /\ loc[p].account_id # loc[q].account_id

\* two merges one after the other, the second for the first's account with a
\* window that holds some but not all rows of the first batch
C8_WitnessSerialized ==
    \E p, q \in Procs :
        /\ Serialized(p, q)
        /\ \E k \in DOMAIN loc[p].new_df : FileHolds(loc[p].new_df[k])
        /\ \E k \in DOMAIN loc[p].new_df : ~FileHolds(loc[p].new_df[k])

(***************************************************************************)
(* Presets (data/metadata/presets.csv) and raw files with named columns.   *)
(* A raw data frame is the set of its column names and its rows, each a    *)
(* function from the column names to the text of the cell.  The JSON       *)
(* fields of a preset are held parsed: amount_columns as a sequence (empty *)
(* when the field is missing or is not JSON), amount_processing as a       *)
(* record of its keys (the empty function when missing or not JSON).  A    *)
(* preset field that is NaN in the table is NaN, a missing number << >>.   *)
(***************************************************************************)
NoDict == << >>

\* dict.get(k, default) and k in dict
Has(d, k) == k \in DOMAIN d
Get(d, k, default) == IF k \in DOMAIN d THEN d[k] ELSE default

NoPreset ==
    [ id |-> 0, date_column |-> NaN, description_column |-> NaN,
      amount_columns |-> << >>, amount_processing |-> NoDict,
      amount_multiplier |-> << >>, transaction_type_column |-> NaN,
      category_column |-> NaN ]

\* separate debit and credit columns, the default multipliers
PresetDual ==
    [ NoPreset EXCEPT !.id = 1, !.date_column = "Date", !.description_column = "Desc",
        !.amount_columns = << "Debit", "Credit" >>,
        !.amount_processing = [debit_column |-> "Debit", credit_column |-> "Credit"] ]

\* separate debit and credit columns with multipliers of their own
PresetDualSigned ==
    [ PresetDual EXCEPT !.id = 2,
        !.amount_processing = [debit_column |-> "Debit", credit_column |-> "Credit",
                               debit_multiplier |-> -2, credit_multiplier |-> 3] ]

\* the debit and credit rule without a declared amount column
PresetDualUndeclared ==
    [ PresetDual EXCEPT !.id = 3, !.amount_columns = << >> ]

\* one amount column and a column that tells debits from credits
PresetTyped ==
    [ NoPreset EXCEPT !.id = 4, !.date_column = "Date", !.description_column = "Desc",
        !.amount_columns = << "Amount" >>,
        !.transaction_type_column = "Type",
        !.category_column = "Cat",
        !.amount_processing = [amount_column |-> "Amount",
                               transaction_type_column |-> "Type",
                               debit_values |-> {"DEBIT"}] ]

\* the same with a multiplier
PresetTypedTwice ==
    [ PresetTyped EXCEPT !.id = 5, !.transaction_type_column = NaN,
        !.category_column = NaN,
        !.amount_processing = [amount_column |-> "Amount",
                               transaction_type_column |-> "Type",
                               debit_values |-> {"DEBIT"},
                               amount_multiplier |-> 2] ]

\* one declared amount column, no processing rule, a multiplier of the preset
PresetSimple ==
    [ NoPreset EXCEPT !.id = 6, !.date_column = "Date",
        !.amount_columns = << "Amount" >>, !.amount_multiplier = << 3 >> ]

\* the debit and credit rule in a configuration that names an amount_column
\* as well
PresetDualAndTyped ==
    [ PresetDual EXCEPT !.id = 7,
        !.amount_columns = << "Amount" >>,
        !.amount_processing = [debit_column |-> "Debit", credit_column |-> "Credit",
                               amount_column |-> "Amount",
                               transaction_type_column |-> "Type",
                               debit_values |-> {"DEBIT"}] ]

\* one amount column, no column that tells debits from credits
PresetSingle ==
    [ NoPreset EXCEPT !.id = 8, !.date_column = "Date",
        !.amount_columns = << "Amount" >>,
        !.amount_processing = [amount_column |-> "Amount"] ]

\* the same with a multiplier
PresetSingleTwice ==
    [ PresetSingle EXCEPT !.id = 9,
        !.amount_processing = [amount_column |-> "Amount", amount_multiplier |-> 2] ]

Presets == << PresetDual, PresetDualSigned, PresetDualUndeclared,
              PresetTyped, PresetTypedTwice, PresetSimple,
              PresetDualAndTyped, PresetSingle, PresetSingleTwice >>

\* data/metadata/categories.csv
Categories == << [id |-> 95, name |-> "Food"], [id |-> 96, name |-> "Fun"] >>

\* pd.to_datetime(cell, errors='coerce'): the moment, or NaT
ParseDate(cell) ==
    CASE cell = "d1" -> 1
      [] cell = "d2" -> 2
      [] cell = "d3" -> 3
      [] OTHER -> NaT

\* pd.to_numeric(cell, errors='coerce'): ok = FALSE stands for NaN
ToNumeric(cell) ==
    CASE cell = "0" -> [ok |-> TRUE, value |-> 0]
      [] cell = "7" -> [ok |-> TRUE, value |-> 7]
      [] cell = "-7" -> [ok |-> TRUE, value |-> -7]
      [] cell = "50" -> [ok |-> TRUE, value |-> 50]
      [] cell = "100" -> [ok |-> TRUE, value |-> 100]
      [] OTHER -> [ok |-> FALSE, value |-> 0]

\* pd.to_numeric(cell, errors='coerce') followed by fillna(0)
NumericOrZero(cell) == IF ToNumeric(cell).ok THEN ToNumeric(cell).value ELSE 0

\* columns and cells of the raw files
FullColumns == {"Date", "Desc", "Debit", "Credit", "Amount", "Type", "Cat", "amount"}
ColumnSets == { FullColumns \ {"amount"},
                FullColumns \ {"amount", "Type"},
                FullColumns,
                FullColumns \ {"amount", "Date"},
                FullColumns \ {"amount", "Amount", "Debit"} }
FullRows == [ Date : {"d1", "bad"}, Desc : {"a"}, Debit : {"50", "x"},
              Credit : {"0", "50"}, Amount : {"100", "x"},
              Type : {"DEBIT", "CREDIT"}, Cat : {"Food"}, amount : {"7"} ]
Restrict(r, columns) == [c \in columns |-> r[c]]


(***************************************************************************)
(* process_amount_with_preset(df, preset): the amount column it computes.  *)
(* has_amount = FALSE when it returns df as it came; raised = TRUE when a  *)
(* column it indexes is not in the file (KeyError).                        *)
(***************************************************************************)
AmountRaised(error) ==
    [raised |-> TRUE, error |-> error, has_amount |-> FALSE, amount |-> << >>]
AmountLeftAlone ==
    [raised |-> FALSE, error |-> "", has_amount |-> FALSE, amount |-> << >>]
AmountColumn(amount) ==
    [raised |-> FALSE, error |-> "", has_amount |-> TRUE, amount |-> amount]

\* lines 88-99: debit * debit_multiplier + credit * credit_multiplier
DualAmount(df, amount_processing) ==
    LET debit_col == amount_processing.debit_column
        credit_col == amount_processing.credit_column
        debit_mult == Get(amount_processing, "debit_multiplier", 1)
        credit_mult == Get(amount_processing, "credit_multiplier", -1)
    IN IF debit_col \notin df.columns \/ credit_col \notin df.columns
       THEN AmountRaised("KeyError")
       ELSE AmountColumn(MapSeq(df.rows, LAMBDA row :
                (NumericOrZero(row[debit_col]) * debit_mult)
                  + (NumericOrZero(row[credit_col]) * credit_mult)))

\* lines 101-116: the sign from the type column, when the file has it
TypedAmount(df, amount_processing) ==
    LET amount_col == amount_processing.amount_column
        type_col == Get(amount_processing, "transaction_type_column", NaN)
        debit_values == Get(amount_processing, "debit_values", {})
        multiplier == Get(amount_processing, "amount_multiplier", 1)
    IN IF amount_col \notin df.columns THEN AmountRaised("KeyError")
       ELSE IF type_col # NaN /\ type_col # "" /\ type_col \in df.columns
       THEN AmountColumn(MapSeq(df.rows, LAMBDA row :
                IF row[type_col] \in debit_values
                THEN NumericOrZero(row[amount_col]) * (-1) * multiplier
                ELSE NumericOrZero(row[amount_col]) * multiplier))
       ELSE AmountColumn(MapSeq(df.rows, LAMBDA row : NumericOrZero(row[amount_col])))

\* lines 118-126: the first declared amount column, times the preset's
\* multiplier when it has one
SimpleAmount(df, preset) ==
    LET amount_col == preset.amount_columns[1]
    IN IF amount_col \notin df.columns THEN AmountRaised("KeyError")
       ELSE AmountColumn(MapSeq(df.rows, LAMBDA row :
                IF preset.amount_multiplier = << >>
                THEN NumericOrZero(row[amount_col])
                ELSE NumericOrZero(row[amount_col]) * preset.amount_multiplier[1]))

process_amount_with_preset(df, preset) ==
    IF preset.amount_columns = << >> THEN AmountLeftAlone
    ELSE IF /\ Has(preset.amount_processing, "debit_column")
            /\ Has(preset.amount_processing, "credit_column")
         THEN DualAmount(df, preset.amount_processing)
    ELSE IF Has(preset.amount_processing, "amount_column")
         THEN TypedAmount(df, preset.amount_processing)
    ELSE SimpleAmount(df, preset)

\* df_with_amount['amount'] where df came back as it was: the column named
\* amount of the file, whose cells float() takes as numbers (ValueError on
\* text); KeyError when the file has no such column
AmountAsRead(df) ==
    IF "amount" \notin df.columns THEN AmountRaised("KeyError")
    ELSE IF \E i \in DOMAIN df.rows : ~ToNumeric(df.rows[i]["amount"]).ok
         THEN AmountRaised("ValueError")
    ELSE AmountColumn(MapSeq(df.rows, LAMBDA row : ToNumeric(row["amount"]).value))

\* lines 172-181
NormalizedAmount(df, preset) ==
    IF preset.id # NoPreset.id
    THEN LET df_with_amount == process_amount_with_preset(df, preset)
         IN IF df_with_amount.raised \/ df_with_amount.has_amount
            THEN df_with_amount
            ELSE AmountAsRead(df)
    ELSE IF "amount" \in df.columns
         THEN AmountColumn(MapSeq(df.rows, LAMBDA row : NumericOrZero(row["amount"])))
         ELSE AmountColumn(MapSeq(df.rows, LAMBDA row : 0))

(***************************************************************************)
(* normalize_to_canonical_schema(df, account_row, preset, categories) for  *)
(* files with named columns.  The result is the data frame returned, or    *)
(* raised = TRUE with the exception.                                       *)
(***************************************************************************)
Normalized(rows) == [raised |-> FALSE, error |-> "", rows |-> rows]
NormalizeRaised(error) == [raised |-> TRUE, error |-> error, rows |-> << >>]

\* lines 136-158: the column the dates are read from
DateColumn(preset) ==
    IF preset.id # NoPreset.id /\ preset.date_column # NaN
    THEN preset.date_column ELSE "date"

\* lines 160-170
NormalizedDescription(row, columns, preset) ==
    IF preset.id # NoPreset.id /\ preset.description_column # NaN
    THEN IF preset.description_column \in columns
         THEN AsTypeStr(row[preset.description_column]) ELSE ""
    ELSE IF "description" \in columns THEN AsTypeStr(row["description"])
    ELSE ""

\* lines 183-196
NormalizedType(row, columns, preset, amount) ==
    IF preset.id # NoPreset.id /\ preset.transaction_type_column # NaN
    THEN IF preset.transaction_type_column \in columns
         THEN AsTypeStr(row[preset.transaction_type_column]) ELSE ""
    ELSE IF "transaction_type" \in columns THEN AsTypeStr(row["transaction_type"])
    ELSE InferType(amount)

\* a lookup that takes names apart from their case
CategoryLookupAnyCase(name) ==
    LET hits == {k \in DOMAIN Categories :
                    \/ Categories[k].name = name
                    \/ Categories[k].name = "Food" /\ name = "food"}
    IN IF hits = {} THEN NoCategory
       ELSE Categories[CHOOSE k \in hits : \A j \in hits : j <= k].id

\* dict(zip(categories['name'], categories['id'])): the last id of a name
CategoryLookup(name) ==
    LET hits == {k \in DOMAIN Categories : Categories[k].name = name}
    IN IF hits = {} THEN NoCategory
       ELSE Categories[CHOOSE k \in hits : \A j \in hits : j <= k].id

\* lines 201-208
NormalizedCategory(row, columns, preset) ==
    IF /\ preset.id # NoPreset.id
       /\ preset.category_column # NaN
       /\ preset.category_column \in columns
    THEN CategoryLookup(row[preset.category_column])
    ELSE NoCategory

\* the id taken from the time of the run, not from the date
CanonicalRowIdOfRun(row, columns, amount, account_row, preset, now) ==
    LET description == NormalizedDescription(row, columns, preset)
        date == ParseDate(row[DateColumn(preset)])
    IN [ id |-> generate_transaction_id(account_row.id, now, amount, description),
         date |-> date,
         description |-> description,
         amount |-> amount,
         created_at |-> now,
         updated_at |-> now,
         account_id |-> account_row.id,
         category_id |-> NormalizedCategory(row, columns, preset),
         transaction_type |-> NormalizedType(row, columns, preset, amount) ]

\* the row stamped with the external number of the account
CanonicalRowOfNumber(row, columns, amount, account_row, preset, now) ==
    LET description == NormalizedDescription(row, columns, preset)
        date == ParseDate(row[DateColumn(preset)])
    IN [ id |-> generate_transaction_id(account_row.number, date, amount, description),
         date |-> date,
         description |-> description,
         amount |-> amount,
         created_at |-> now,
         updated_at |-> now,
         account_id |-> account_row.number,
         category_id |-> NormalizedCategory(row, columns, preset),
         transaction_type |-> NormalizedType(row, columns, preset, amount) ]

\* one row of normalized, lines 135-223
CanonicalRow(row, columns, amount, account_row, preset, now) ==
    LET description == NormalizedDescription(row, columns, preset)
        date == ParseDate(row[DateColumn(preset)])
    IN [ id |-> generate_transaction_id(account_row.id, date, amount, description),
         date |-> date,
         description |-> description,
         amount |-> amount,
         created_at |-> now,
         updated_at |-> now,
         account_id |-> account_row.id,
         category_id |-> NormalizedCategory(row, columns, preset),
         transaction_type |-> NormalizedType(row, columns, preset, amount) ]

normalize_preset(df, account_row, preset, now) ==
    IF DateColumn(preset) \notin df.columns THEN Normalized(<< >>)
    ELSE LET amount == NormalizedAmount(df, preset)
         IN IF amount.raised THEN NormalizeRaised(amount.error)
            ELSE Normalized(DropNaDate(
                   [i \in DOMAIN df.rows |->
                      CanonicalRow(df.rows[i], df.columns, amount.amount[i],
                                   account_row, preset, now)]))


(***************************************************************************)
(* The normaliser on its own: a first file of an account, then a further   *)
(* export for the same account under the same preset.                      *)
(***************************************************************************)
PresetAt(p) == IF p = 0 THEN NoPreset ELSE Presets[p]

\* files of one row, of every column set, and files of two rows that differ
\* in their date cells only
DatedRows == [ Date : {"d1", "d2", "bad", NaN}, Desc : {"a"}, Debit : {"50"},
               Credit : {"0"}, Amount : {"100"}, Type : {"DEBIT"}, Cat : {"Food"} ]

\* files with the literal columns date, description, amount, transaction_type
\* or some of them, with a missing description or type cell and amounts of
\* either sign
LiteralColumnSets == { {"date", "description", "amount", "transaction_type"},
                       {"date", "description", "amount"},
                       {"date", "amount"},
                       {"date"} }
LiteralRows == [ date : {"d1"}, description : {"a", NaN}, amount : {"7", "-7", "0"},
                 transaction_type : {"T", NaN} ]

\* files with the columns of the presets, with a missing description, type
\* or category cell and category names the table has or has not; files that
\* have the literal description and transaction_type columns instead
PresetRows == [ Date : {"d1"}, Desc : {"a", NaN}, Amount : {"100"},
                Type : {"DEBIT", NaN}, Cat : {"Food", "food", "Other", NaN} ]
MixedRows == [ Date : {"d1"}, Amount : {"100"}, description : {"a", NaN},
               transaction_type : {"T"} ]

RawFrames ==
    { [columns |-> columns, rows |-> << Restrict(row, columns) >>] :
         columns \in ColumnSets, row \in FullRows }
    \cup { [columns |-> FullColumns \ {"amount"}, rows |-> << r1, r2 >>] :
              r1 \in DatedRows, r2 \in DatedRows }
    \cup { [columns |-> columns, rows |-> << Restrict(row, columns) >>] :
              columns \in LiteralColumnSets, row \in LiteralRows }
    \cup { [columns |-> DOMAIN row, rows |-> << row >>] : row \in PresetRows }
    \cup { [columns |-> columns, rows |-> << Restrict(row, columns) >>] :
              columns \in { {"Date", "Amount", "description", "transaction_type"},
                            {"Date", "Amount"} },
              row \in MixedRows }

NormalizeRecord(df, account_row, preset, now) ==
    LET r == normalize_preset(df, account_row, preset, now)
    IN [op |-> "normalize", df |-> df, account_row |-> account_row,
        preset |-> preset, now |-> now,
        raised |-> r.raised, error |-> r.error, rows |-> r.rows]

NormalizeFile ==
    /\ clock <= MaxClock
    /\ last.op = "none"
    /\ \E df \in RawFrames, k \in DOMAIN Accounts, p \in 0..Len(Presets) :
          /\ clock' = clock + 1
          /\ last' = NormalizeRecord(df, Accounts[k], PresetAt(p), clock)
          /\ prev' = NoPrev
          /\ UNCHANGED << file, pc, loc, events >>

NormalizeNextFile ==
    /\ clock <= MaxClock
    /\ last.op = "normalize"
    /\ \E df \in RawFrames :
          /\ clock' = clock + 1
          /\ last' = NormalizeRecord(df, last.account_row, last.preset, clock)
          /\ prev' = last
          /\ UNCHANGED << file, pc, loc, events >>

NextNorm == NormalizeFile \/ NormalizeNextFile

SpecNorm == Init /\ [][NextNorm]_vars

NormalizedNow == last.op = "normalize" /\ ~last.raised
NormalizedBefore == prev.op = "normalize" /\ ~prev.raised

SameIdentityFields(r1, r2) ==
    /\ r1.account_id = r2.account_id
    /\ r1.date = r2.date
    /\ r1.amount = r2.amount
    /\ r1.description = r2.description

\* C11: two normalised rows that agree on account_id, date, amount and
\* description have the same id, whatever the time of the run that made them
\* and whatever their category_id, transaction_type, created_at, updated_at.
C11_IdentityDeterministic ==
    (NormalizedNow /\ NormalizedBefore) =>
        \A i \in DOMAIN prev.rows, j \in DOMAIN last.rows :
            SameIdentityFields(prev.rows[i], last.rows[j])
                => prev.rows[i].id = last.rows[j].id

\* two runs at different times gave the same id to rows that differ in
\* created_at, updated_at and transaction_type
C11_Witness ==
    /\ NormalizedNow /\ NormalizedBefore
    /\ \E i \in DOMAIN prev.rows, j \in DOMAIN last.rows :
          /\ prev.rows[i].id = last.rows[j].id
          /\ prev.rows[i].created_at # last.rows[j].created_at
          /\ prev.rows[i].updated_at # last.rows[j].updated_at
          /\ prev.rows[i].transaction_type # last.rows[j].transaction_type

\* the raw rows whose date parsed, in file order: the sources of last.rows
ParsedRows ==
    SelectSeq(last.df.rows,
              LAMBDA row : ParseDate(row[DateColumn(last.preset)]) # NaT)

CellOf(row, column) == IF column \in DOMAIN row THEN row[column] ELSE NaN

DualConfigured ==
    /\ last.op = "normalize"
    /\ Has(last.preset.amount_processing, "debit_column")
    /\ Has(last.preset.amount_processing, "credit_column")

DualExpected(row) ==
    LET ap == last.preset.amount_processing
    IN (NumericOrZero(CellOf(row, ap.debit_column)) * Get(ap, "debit_multiplier", 1))
         + (NumericOrZero(CellOf(row, ap.credit_column)) * Get(ap, "credit_multiplier", -1))

\* C14 (as claimed): when amount_processing has debit_column and
\* credit_column, every normalised row's amount is debit * debit_multiplier
\* (default 1) + credit * credit_multiplier (default -1), a cell that is not
\* a number counting as 0.
C14_DualColumnAmount ==
    (DualConfigured /\ ~last.raised) =>
        \A k \in DOMAIN last.rows : last.rows[k].amount = DualExpected(ParsedRows[k])

TypedConfigured ==
    /\ last.op = "normalize"
    /\ ~DualConfigured
    /\ Has(last.preset.amount_processing, "amount_column")
    /\ Has(last.preset.amount_processing, "transaction_type_column")

TypedExpected(row) ==
    LET ap == last.preset.amount_processing
        value == NumericOrZero(CellOf(row, ap.amount_column))
        multiplier == Get(ap, "amount_multiplier", 1)
    IN IF CellOf(row, ap.transaction_type_column) \in Get(ap, "debit_values", {})
       THEN (0 - value) * multiplier
       ELSE value * multiplier

\* C15 (as claimed): with amount_column and a type column configured, a row
\* whose type value is in debit_values gets -(value) * amount_multiplier
\* (default 1), any other row value * amount_multiplier, a cell that is not a
\* number counting as 0.
C15_TypeDiscriminatedAmount ==
    (TypedConfigured /\ ~last.raised) =>
        \A k \in DOMAIN last.rows : last.rows[k].amount = TypedExpected(ParsedRows[k])


\* the date cells of the raw file, parsed
ParsedDates ==
    [i \in DOMAIN last.df.rows |-> ParseDate(last.df.rows[i][DateColumn(last.preset)])]

\* C12: the normaliser's output has no row with a null date; the rows it
\* returns are, in file order, one for each raw row whose date parses, so a
\* date that does not parse removes its own row and no other.
C12_NullDatesDropped ==
    (NormalizedNow /\ DateColumn(last.preset) \in last.df.columns) =>
        /\ \A k \in DOMAIN last.rows : last.rows[k].date # NaT
        /\ [k \in DOMAIN last.rows |-> last.rows[k].date]
              = SelectSeq(ParsedDates, LAMBDA d : d # NaT)

\* a file of two rows, one with a date that does not parse: one row is left
C12_Witness ==
    /\ NormalizedNow
    /\ DateColumn(last.preset) \in last.df.columns
    /\ Len(last.df.rows) = 2
    /\ \E i \in DOMAIN ParsedDates : ParsedDates[i] = NaT
    /\ Len(last.rows) = 1


(***************************************************************************)
(* A run of the pipeline (main): the directories under data/raw in the     *)
(* order os.listdir gives them, each with its CSV files.  A file is either *)
(* one that pd.read_csv cannot parse or a data frame with named columns.   *)
(***************************************************************************)
MaxDirs == 2      \* directories under data/raw
MaxFiles == 2     \* CSV files of one directory

RunDirNames == {"2", "4", "7", "9", "abc"}

Frame(columns, rows) == [parses |-> TRUE, columns |-> columns, rows |-> rows]

\* pd.read_csv raises on it (ParserError, EmptyDataError, UnicodeDecodeError)
BrokenCsv == [parses |-> FALSE, columns |-> {}, rows |-> << >>]

LiteralRow(date) == [date |-> date, description |-> "a", amount |-> "7"]
PresetRow(date) == [Date |-> date, Desc |-> "a", Amount |-> "100",
                    Type |-> "DEBIT", Cat |-> "Food"]

CsvFiles ==
    << BrokenCsv,
       \* a header line and no row
       Frame({"date", "description", "amount"}, << >>),
       Frame({"date", "description", "amount"}, << LiteralRow("d1") >>),
       Frame({"date", "description", "amount"}, << LiteralRow("d2"), LiteralRow("bad") >>),
       \* no date column
       Frame({"description", "amount"},
             << [description |-> "a", amount |-> "7"] >>),
       Frame({"Date", "Desc", "Amount", "Type", "Cat"}, << PresetRow("d1") >>),
       \* the amount column the preset declares is not in the file
       Frame({"Date", "Desc"}, << [Date |-> "d3", Desc |-> "a"] >>) >>

\* an id that is the id of no preset taking the first preset of the table
AccountPresetOrFirst(account_row) ==
    LET preset_rows == SelectSeq(Presets,
                          LAMBDA p : p.id = account_row.default_import_preset_id)
    IN IF account_row.default_import_preset_id = NoPreset.id THEN NoPreset
       ELSE IF preset_rows # << >> THEN preset_rows[1] ELSE Presets[1]

\* lines 313-319: the preset the account names, when the table has it
AccountPreset(account_row) ==
    LET preset_rows == SelectSeq(Presets,
                          LAMBDA p : p.id = account_row.default_import_preset_id)
    IN IF account_row.default_import_preset_id # NoPreset.id /\ preset_rows # << >>
       THEN preset_rows[1] ELSE NoPreset

\* one turn of the loop over csv_files, lines 334-361, without the except
\* clause: raised = TRUE when an exception leaves the try block
FileRaised(f, error) ==
    [raised |-> TRUE, outcome |-> error, file |-> f, new_df |-> << >>]
FileDone(f, outcome, new_df) ==
    [raised |-> FALSE, outcome |-> outcome, file |-> f, new_df |-> new_df]

ProcessFile(f, account_id, account_row, preset, csv, now) ==
    IF ~csv.parses THEN FileRaised(f, "ParserError")
    ELSE IF csv.rows = << >> THEN FileDone(f, "empty_file", << >>)
    ELSE
      LET normalized == normalize_preset([columns |-> csv.columns, rows |-> csv.rows],
                                         account_row, preset, now)
      IN IF normalized.raised THEN FileRaised(f, normalized.error)
         ELSE IF normalized.rows = << >> THEN FileDone(f, "nothing_normalized", << >>)
         ELSE LET r == delta_load_transactions(f, normalized.rows, account_id)
              IN IF r.outcome \in {"EmptyDataError", "ValueError"}
                 THEN FileRaised(f, r.outcome)
                 ELSE FileDone(r.file, r.outcome, normalized.rows)

\* the loop ending at the first exception
StopAtException(r) == ~r.raised

\* lines 363-365: except Exception: log, continue
ContinueLoop(r) == TRUE

FileEntry(f, r) ==
    [outcome |-> r.outcome, raised |-> r.raised, pre |-> f, post |-> r.file,
     new_df |-> r.new_df]

\* the loop over csv_files: the file afterwards, what happened to each file,
\* and whether an exception left the loop
RECURSIVE RunFiles(_, _, _, _, _, _)
RECURSIVE AfterFile(_, _, _, _, _, _, _)
RunFiles(f, account_id, account_row, preset, csv_files, now) ==
    IF csv_files = << >> THEN [file |-> f, files |-> << >>, escaped |-> FALSE]
    ELSE AfterFile(f, ProcessFile(f, account_id, account_row, preset,
                                  Head(csv_files), now),
                   account_id, account_row, preset, Tail(csv_files), now)

\* one turn of the loop: r is what the body did to the first file, csv_files
\* the files still to come
AfterFile(f, r, account_id, account_row, preset, csv_files, now) ==
    IF ContinueLoop(r)
    THEN [RunFiles(r.file, account_id, account_row, preset, csv_files, now)
            EXCEPT !.files = << FileEntry(f, r) >> \o @]
    ELSE [file |-> r.file, files |-> << FileEntry(f, r) >>, escaped |-> TRUE]

\* an account the table does not have raising out of process_account
UnknownAccountRaises(f, why) ==
    [outcome |-> why, file |-> f, files |-> << >>, escaped |-> TRUE]

\* lines 300-308: logged, return None
UnknownAccount(f, why) ==
    [outcome |-> why, file |-> f, files |-> << >>, escaped |-> FALSE]

\* lines 331-375: the files that gave rows, and what process_account reports
ProcessedFiles(files) ==
    {i \in DOMAIN files : ~files[i].raised /\ files[i].new_df # << >>}

AccountRun(run) ==
    [outcome |-> IF run.escaped THEN "raised"
                 ELSE IF ProcessedFiles(run.files) = {} THEN "no_usable_data"
                 ELSE "processed",
     file |-> run.file, files |-> run.files, escaped |-> run.escaped]

\* lines 310-375: process_account once the account row is found
ProcessAccountRow(f, account_id, account_row, csv_files, now) ==
    AccountRun(RunFiles(f, account_id, account_row, AccountPreset(account_row),
                        csv_files, now))

\* process_account(account_id, ...) on a directory with the files csv_files
process_account_dir(f, account_id, csv_files, now) ==
    IF ~ParseInt(account_id).ok THEN UnknownAccount(f, "invalid_account_id")
    ELSE IF AccountRows(ParseInt(account_id).value) = << >>
         THEN UnknownAccount(f, "account_not_found")
    ELSE IF csv_files = << >>
         THEN [outcome |-> "no_csv_files", file |-> f, files |-> << >>, escaped |-> FALSE]
    ELSE ProcessAccountRow(f, account_id, AccountRows(ParseInt(account_id).value)[1],
                           csv_files, now)

DirEntry(f, dir, r) ==
    [name |-> dir.name, outcome |-> r.outcome, pre |-> f, post |-> r.file,
     files |-> r.files, escaped |-> r.escaped]

\* main, lines 390-395: the loop over the directories; an exception out of
\* process_account ends it (lines 404-406)
RECURSIVE RunDirs(_, _, _)
RECURSIVE AfterDir(_, _, _, _, _)
RunDirs(f, dirs, now) ==
    IF dirs = << >> THEN [file |-> f, dirs |-> << >>, escaped |-> FALSE]
    ELSE AfterDir(f, Head(dirs),
                  process_account_dir(f, Head(dirs).name, Head(dirs).csv_files, now),
                  Tail(dirs), now)

\* one turn of the loop: r is what process_account did in the directory dir,
\* dirs the directories still to come
AfterDir(f, dir, r, dirs, now) ==
    IF r.escaped
    THEN [file |-> r.file, dirs |-> << DirEntry(f, dir, r) >>, escaped |-> TRUE]
    ELSE [RunDirs(r.file, dirs, now) EXCEPT !.dirs = << DirEntry(f, dir, r) >> \o @]

\* the listing of data/raw: directory names, all different, and for each
\* directory the files in it (as indexes into CsvFiles)
RawDirs ==
    [ name : RunDirNames,
      files : UNION { [1..n -> DOMAIN CsvFiles] : n \in 1..MaxFiles } ]

RawTrees ==
    { tree \in UNION { [1..n -> RawDirs] : n \in 1..MaxDirs } :
         \A i, j \in DOMAIN tree : i # j => tree[i].name # tree[j].name }

Listing(tree) ==
    [i \in DOMAIN tree |->
        [name |-> tree[i].name,
         csv_files |-> [j \in DOMAIN tree[i].files |-> CsvFiles[tree[i].files[j]]]]]

\* the ledger before the run: none, or the empty file that a write killed
\* after its open() leaves behind
InitRun ==
    /\ file \in {NoFile, TruncatedFile}
    /\ clock = 1
    /\ last = NoOp
    /\ prev = NoPrev
    /\ pc = [p \in Procs |-> "idle"]
    /\ loc = [p \in Procs |-> NoLocals]
    /\ events = << >>

\* python etl.py, once
Main ==
    /\ last.op = "none"
    /\ \E tree \in RawTrees :
          LET r == RunDirs(file, Listing(tree), clock) IN
          /\ file' = r.file
          /\ clock' = clock + 1
          /\ last' = [op |-> "main", tree |-> Listing(tree), pre |-> file, now |-> clock,
                      dirs |-> r.dirs, escaped |-> r.escaped]
          /\ UNCHANGED << prev, pc, loc, events >>

NextRun == Main

SpecRun == InitRun /\ [][NextRun]_vars


RunDone == last.op = "main"

\* a directory name that is the number of an account of the table
Resolves(name) ==
    /\ ParseInt(name).ok
    /\ \E k \in DOMAIN Accounts : Accounts[k].number = ParseInt(name).value

MergedEntry(e) == ~e.raised /\ e.outcome = "merged"

\* C13: after a run of the pipeline from a ledger without rows every ledger
\* row's account_id is the internal id of an account of the table, and the
\* rows merged from a directory carry the internal id of the account whose
\* external number names the directory.
C13_AccountIdIsInternal ==
    RunDone =>
        /\ \A i \in DOMAIN Ledger :
              \E k \in DOMAIN Accounts : Accounts[k].id = Ledger[i].account_id
        /\ \A d \in DOMAIN last.dirs : \A j \in DOMAIN last.dirs[d].files :
              \A k \in DOMAIN last.dirs[d].files[j].new_df :
                 last.dirs[d].files[j].new_df[k].account_id
                    = AccountOfNumber(last.dirs[d].name).id

\* rows merged from the directory of an account whose number is not its id
C13_Witness ==
    /\ RunDone
    /\ \E d \in DOMAIN last.dirs : \E j \in DOMAIN last.dirs[d].files :
          /\ MergedEntry(last.dirs[d].files[j])
          /\ AccountOfNumber(last.dirs[d].name).id # ParseInt(last.dirs[d].name).value
          /\ \E i \in DOMAIN Ledger :
                Ledger[i].account_id = AccountOfNumber(last.dirs[d].name).id

\* what the claim calls a file that fails, for the account of its directory
RequiredColumns(preset) ==
    {DateColumn(preset)} \cup {preset.amount_columns[k] : k \in DOMAIN preset.amount_columns}

FailsOnItsOwn(csv, name) ==
    \/ ~csv.parses
    \/ ~(RequiredColumns(AccountPreset(AccountOfNumber(name))) \subseteq csv.columns)

HasDatedRow(csv, name) ==
    \E i \in DOMAIN csv.rows :
        ParseDate(csv.rows[i][DateColumn(AccountPreset(AccountOfNumber(name)))]) # NaT

EntryHoldsRows(e) ==
    \A k \in DOMAIN e.new_df :
        \E i \in DOMAIN e.post.rows :
            ReadCsvRow(e.post.rows[i]) = ReadCsvRow(ToCsvRow(e.new_df[k]))

\* C16: in a directory of a known account every file is handled; a file that
\* cannot be parsed, lacks the date column, or raises in normalisation or in
\* the merge contributes no row and leaves the ledger file as it was; no
\* exception leaves process_account; every other file with a dated row is
\* normalised and merged.
C16_PerFileIsolation ==
    RunDone =>
        /\ ~last.escaped
        /\ \A d \in DOMAIN last.dirs :
              /\ ~last.dirs[d].escaped
              /\ Resolves(last.dirs[d].name) =>
                    /\ Len(last.dirs[d].files) = Len(last.tree[d].csv_files)
                    /\ \A j \in DOMAIN last.dirs[d].files :
                          LET e == last.dirs[d].files[j]
                              csv == last.tree[d].csv_files[j]
                          IN IF \/ FailsOnItsOwn(csv, last.dirs[d].name)
                                \/ e.raised
                             THEN e.post = e.pre /\ e.new_df = << >>
                             ELSE HasDatedRow(csv, last.dirs[d].name)
                                     => MergedEntry(e) /\ EntryHoldsRows(e)

\* a file that raised between two files of its run that were merged
C16_Witness ==
    /\ RunDone
    /\ \E d \in DOMAIN last.dirs : \E j, k \in DOMAIN last.dirs[d].files :
          /\ j < k
          /\ last.dirs[d].files[j].raised
          /\ last.dirs[d].files[j].pre.rows # << >>
          /\ MergedEntry(last.dirs[d].files[k])

\* C17: a directory whose name is not the number of an account (not a number,
\* or a number no account has) contributes no row and leaves the ledger file
\* as it was, and the run goes on: every directory of the listing is reached
\* and the files of the others are handled.
C17_UnknownAccountIsolation ==
    RunDone =>
        /\ Len(last.dirs) = Len(last.tree)
        /\ \A d \in DOMAIN last.dirs :
              IF Resolves(last.tree[d].name)
              THEN Len(last.dirs[d].files) = Len(last.tree[d].csv_files)
              ELSE /\ last.dirs[d].post = last.dirs[d].pre
                   /\ last.dirs[d].files = << >>
                   /\ ~last.dirs[d].escaped

\* a directory that is no account, and after it one whose file was merged
C17_Witness ==
    /\ RunDone
    /\ \E d, g \in DOMAIN last.dirs :
          /\ d < g
          /\ ~Resolves(last.tree[d].name)
          /\ \E j \in DOMAIN last.dirs[g].files : MergedEntry(last.dirs[g].files[j])


\* (account_id, date) of r1 is at most (account_id, date) of r2
KeyAtMost(r1, r2) ==
    \/ r1.account_id < r2.account_id
    \/ r1.account_id = r2.account_id /\ r1.date <= r2.date

SortedLedger(df) == \A i \in 1..(Len(df) - 1) : KeyAtMost(df[i], df[i + 1])

\* C18: after a successful merge any two consecutive rows of the ledger are
\* in ascending order of (account_id, date), and a save or clear on a ledger
\* in that order leaves it in that order.
C18_LedgerSorted ==
    /\ Merged => SortedLedger(Ledger)
    /\ (Edited /\ last.pre.exists /\ SortedLedger(LedgerBefore)) => SortedLedger(Ledger)

\* a merge whose batch has a row that belongs before a row the ledger kept
C18_Witness ==
    /\ Merged
    /\ \E i \in DOMAIN LedgerBefore, k \in DOMAIN last.new_df :
          /\ ~OfAccountInWindow(LedgerBefore[i])
          /\ ~KeyAtMost(LedgerBefore[i], last.new_df[k])
    /\ Len(Ledger) > Len(last.new_df)


(***************************************************************************)
(* Time of day.  The dates 1..MaxDate are moments, as pd.to_datetime keeps *)
(* them: SlotsPerDay of them fall on one calendar day.                     *)
(***************************************************************************)
SlotsPerDay == 2
DayOf(t) == (t + SlotsPerDay - 1) \div SlotsPerDay

\* C19 (as claimed): a successful merge removes every existing row of the
\* account whose calendar day lies between the day of min_date and the day of
\* max_date, whatever its time of day: such a row is in the ledger afterwards
\* only as a row of the batch.
C19_WindowByDay ==
    Merged =>
        \A i \in DOMAIN LedgerBefore :
            ( /\ LedgerBefore[i].account_id = ClaimAccount.id
              /\ DayOf(ClaimMin) <= DayOf(LedgerBefore[i].date)
              /\ DayOf(LedgerBefore[i].date) <= DayOf(ClaimMax) )
                => Count(Ledger, LedgerBefore[i]) <= Count(NewRowsAsRead, LedgerBefore[i])


(***************************************************************************)
(* Imports and edits in turn: python etl.py on one directory with one      *)
(* file, and the page, with room for an import after an edit.              *)
(***************************************************************************)
ImportDirNames == {"2", "4"}

ImportFiles ==
    << Frame({"date", "description", "amount"}, << LiteralRow("d1") >>),
       Frame({"date", "description", "amount"}, << LiteralRow("d2") >>),
       Frame({"Date", "Desc", "Amount", "Type", "Cat"}, << PresetRow("d1") >>),
       Frame({"Date", "Desc", "Amount", "Type", "Cat"},
             << PresetRow("d1"), PresetRow("d2") >>) >>

RecordImport(pre, account_id, now, r) ==
    [NoOp EXCEPT !.op = "process_account", !.pre = pre, !.account_id = account_id,
                 !.now = now,
                 !.new_df = r.files[1].new_df,
                 !.outcome = r.files[1].outcome]

ImportDir ==
    /\ clock <= MaxClock + 1
    /\ \E account_id \in ImportDirNames, k \in DOMAIN ImportFiles :
          LET r == process_account_dir(file, account_id, << ImportFiles[k] >>, clock) IN
          /\ file' = r.file
          /\ clock' = clock + 1
          /\ last' = RecordImport(file, account_id, clock, r)
          /\ prev' = last
          /\ UNCHANGED << pc, loc, events >>

NextReimport == ImportDir \/ CategorizeSave \/ CategorizeClear

SpecReimport == Init /\ [][NextReimport]_vars

\* the last operation is a merge, the one before it a save that gave a row of
\* the merged account, dated in the window of the batch, a category
ReimportAfterSave ==
    /\ Merged
    /\ prev.op = "save"
    /\ \E i \in DOMAIN LedgerBefore :
          /\ LedgerBefore[i].id = prev.target
          /\ LedgerBefore[i].category_id = prev.category
          /\ OfAccountInWindow(LedgerBefore[i])

\* C20: after a row has been given a category by hand, a re-import for its
\* account whose window covers its date leaves in that window only the rows
\* of the batch, as normalisation made them: a ledger row with the id of the
\* edited row is the freshly normalised row, with the category_id
\* normalisation gave it and the time of the re-import.
C20_ReimportReplacesCategory ==
    ReimportAfterSave =>
        \A i \in DOMAIN Ledger :
            OfAccountInWindow(Ledger[i]) =>
                /\ \E k \in DOMAIN NewRowsAsRead : Ledger[i] = NewRowsAsRead[k]
                /\ Ledger[i].created_at = last.now

\* the re-imported row has the category of its raw file, not the one given
\* by hand
C20_Witness ==
    /\ ReimportAfterSave
    /\ \E i \in DOMAIN Ledger :
          /\ Ledger[i].id = prev.target
          /\ Ledger[i].category_id # prev.category
          /\ Ledger[i].category_id # NoCategory


(***************************************************************************)
(* The amount strategies and the columns description, transaction_type and *)
(* category_id of the normaliser's output.                                 *)
(***************************************************************************)
WithPreset == last.op = "normalize" /\ last.preset.id # NoPreset.id

\* the value of the amount column the single-column rule names
SingleValue(row) ==
    NumericOrZero(CellOf(row, last.preset.amount_processing.amount_column))

\* the amounts the single-column rule can give a row: the value, with or
\* without the sign change and the multiplier
SingleAmounts(row) ==
    LET m == Get(last.preset.amount_processing, "amount_multiplier", 1)
    IN { SingleValue(row), 0 - SingleValue(row),
         SingleValue(row) * m, (0 - SingleValue(row)) * m }

\* the simple rule: the declared amount column as a number, times the
\* preset's multiplier when it has one
SimpleExpected(row) ==
    LET value == NumericOrZero(CellOf(row, last.preset.amount_columns[1]))
    IN IF last.preset.amount_multiplier = << >> THEN value
       ELSE value * last.preset.amount_multiplier[1]

\* C21 (as claimed): the strategy is chosen by the keys of amount_processing:
\* with debit_column and credit_column the dual-column rule gives the amount,
\* also when amount_column is there too; otherwise with amount_column the
\* single-column rule does; otherwise the simple rule, on the declared amount
\* column with the preset's multiplier.
C21_StrategyPrecedence ==
    (WithPreset /\ ~last.raised) =>
        \A k \in DOMAIN last.rows :
            IF DualConfigured
            THEN last.rows[k].amount = DualExpected(ParsedRows[k])
            ELSE IF Has(last.preset.amount_processing, "amount_column")
            THEN last.rows[k].amount \in SingleAmounts(ParsedRows[k])
            ELSE last.preset.amount_columns # << >>
                    => last.rows[k].amount = SimpleExpected(ParsedRows[k])

\* the same for the presets that declare their amount columns
C21_PrecedenceWhenDeclared ==
    (WithPreset /\ last.preset.amount_columns # << >>) => C21_StrategyPrecedence


SingleUntyped ==
    /\ WithPreset
    /\ ~DualConfigured
    /\ Has(last.preset.amount_processing, "amount_column")
    /\ ~Has(last.preset.amount_processing, "transaction_type_column")

\* C22 (as claimed): in single-column mode with no type column configured,
\* every row's amount is the numeric value of the amount column times
\* amount_multiplier when one is configured, with no sign change.
C22_UntypedSingleAmount ==
    (SingleUntyped /\ ~last.raised) =>
        \A k \in DOMAIN last.rows :
            last.rows[k].amount
               = SingleValue(ParsedRows[k])
                   * Get(last.preset.amount_processing, "amount_multiplier", 1)

\* the same for the presets without an amount_multiplier
C22_UntypedSingleAmountUnmultiplied ==
    (SingleUntyped /\ ~Has(last.preset.amount_processing, "amount_multiplier"))
        => C22_UntypedSingleAmount


\* the type column the preset names, NaN when it names none
PresetTypeColumn ==
    IF WithPreset THEN last.preset.transaction_type_column ELSE NaN

\* the text of a cell: a missing cell is the text nan (C24 is about it)
CellText(row, column) == IF row[column] = NaN THEN "nan" ELSE row[column]

\* C23 (as claimed): the type column the preset names is used as text when
\* the file has it, else the literal transaction_type column; when the file
\* has neither, the type is inferred from the sign of the amount: debit below
\* zero, credit above it, zero at zero.
C23_TypeResolution ==
    NormalizedNow =>
        \A k \in DOMAIN last.rows :
            IF PresetTypeColumn # NaN /\ PresetTypeColumn \in last.df.columns
            THEN last.rows[k].transaction_type = CellText(ParsedRows[k], PresetTypeColumn)
            ELSE IF "transaction_type" \in last.df.columns
            THEN last.rows[k].transaction_type = CellText(ParsedRows[k], "transaction_type")
            ELSE last.rows[k].transaction_type
                    = (IF last.rows[k].amount < 0 THEN "debit"
                       ELSE IF last.rows[k].amount > 0 THEN "credit" ELSE "zero")

\* the same when the preset names no type column or the file has the column
\* it names
C23_TypeResolutionColumnFound ==
    (PresetTypeColumn = NaN \/ PresetTypeColumn \in last.df.columns)
        => C23_TypeResolution


\* the column the description is read from, NaN when the file has none
DescriptionSource ==
    IF WithPreset /\ last.preset.description_column # NaN
    THEN (IF last.preset.description_column \in last.df.columns
          THEN last.preset.description_column ELSE NaN)
    ELSE IF "description" \in last.df.columns THEN "description" ELSE NaN

Texts == {"", "a", "nan"}

\* C24 (as claimed): every output row's description is a string, never null,
\* and a raw row whose description cell is absent gets the empty string, with
\* a preset description column, with the literal description column and with
\* neither.
C24_DescriptionNeverNull ==
    NormalizedNow =>
        \A k \in DOMAIN last.rows :
            /\ last.rows[k].description \in Texts
            /\ (DescriptionSource = NaN \/ ParsedRows[k][DescriptionSource] = NaN)
                  => last.rows[k].description = ""

\* the part of it that is about the column and not about the cell
C24_DescriptionWithoutColumn ==
    NormalizedNow =>
        \A k \in DOMAIN last.rows :
            /\ last.rows[k].description \in Texts
            /\ DescriptionSource = NaN => last.rows[k].description = ""


\* the category column the preset names, NaN when it names none
PresetCategoryColumn ==
    IF WithPreset THEN last.preset.category_column ELSE NaN

CategoryColumnRead ==
    PresetCategoryColumn # NaN /\ PresetCategoryColumn \in last.df.columns

\* the ids of the categories named exactly text
IdsOfName(text) == {Categories[c].id : c \in {j \in DOMAIN Categories :
                                                 Categories[j].name = text}}

\* C25: category_id is null for every row unless the preset names a category
\* column; with one, a row's category_id is the id of the category whose name
\* is exactly the raw category text, and null when no category has that name;
\* text that matches no name does not fail the file.
C25_CategoryResolution ==
    /\ NormalizedNow =>
          \A k \in DOMAIN last.rows :
             IF CategoryColumnRead /\ IdsOfName(ParsedRows[k][PresetCategoryColumn]) # {}
             THEN last.rows[k].category_id \in IdsOfName(ParsedRows[k][PresetCategoryColumn])
             ELSE last.rows[k].category_id = NoCategory
    /\ (last.op = "normalize" /\ CategoryColumnRead
          /\ RequiredColumns(last.preset) \subseteq last.df.columns) => ~last.raised

\* a file whose category text is the name of a category gave its id, and the
\* next file, whose text differs from that name by case only, gave null
C25_Witness ==
    /\ NormalizedNow /\ NormalizedBefore
    /\ CategoryColumnRead
    /\ PresetCategoryColumn \in prev.df.columns
    /\ prev.rows # << >> /\ last.rows # << >>
    /\ prev.df.rows[1][PresetCategoryColumn] = "Food"
    /\ prev.rows[1].category_id = 95
    /\ last.df.rows[1][PresetCategoryColumn] = "food"
    /\ last.rows[1].category_id = NoCategory


\* the presets of the table with the id the account names
PresetsOfAccount(name) ==
    {p \in DOMAIN Presets :
        Presets[p].id = AccountOfNumber(name).default_import_preset_id}

\* the account names no preset, or names an id that no preset has
WithoutPreset(name) ==
    \/ AccountOfNumber(name).default_import_preset_id = 0
    \/ PresetsOfAccount(name) = {}

LiteralFile(csv) == csv.parses /\ {"date", "description", "amount"} \subseteq csv.columns

\* the rows the fallback heuristics give a literal file: date, description
\* and amount from the columns of those names
FallbackRows(csv) ==
    SelectSeq([i \in DOMAIN csv.rows |->
                  [date |-> ParseDate(csv.rows[i]["date"]),
                   description |-> csv.rows[i]["description"],
                   amount |-> NumericOrZero(csv.rows[i]["amount"])]],
              LAMBDA r : r.date # NaT)

\* the rows the preset gives a file: the date from the column it names
PresetDates(csv, preset) ==
    SelectSeq([i \in DOMAIN csv.rows |-> ParseDate(csv.rows[i][preset.date_column])],
              LAMBDA d : d # NaT)

\* C26: resolving the preset of an account raises nothing; the files of an
\* account that names no preset, or an id that no preset has, are processed
\* with the literal columns date, description and amount; the files of an
\* account that names a preset of the table are processed with that preset.
\* (A ledger file that cannot be read makes the merge raise, whatever the
\* preset: the files met with such a ledger are left out.)
C26_PresetResolution ==
    RunDone =>
        \A d \in DOMAIN last.dirs :
            Resolves(last.dirs[d].name) =>
                /\ ~last.dirs[d].escaped
                /\ \A j \in DOMAIN last.dirs[d].files :
                      LET e == last.dirs[d].files[j]
                          csv == last.tree[d].csv_files[j]
                      IN IF Unreadable(e.pre) THEN TRUE
                         ELSE IF WithoutPreset(last.dirs[d].name)
                         THEN LiteralFile(csv) =>
                                 /\ ~e.raised
                                 /\ [k \in DOMAIN e.new_df |->
                                       [date |-> e.new_df[k].date,
                                        description |-> e.new_df[k].description,
                                        amount |-> e.new_df[k].amount]]
                                      = FallbackRows(csv)
                         ELSE \A p \in PresetsOfAccount(last.dirs[d].name) :
                                 (csv.parses /\ RequiredColumns(Presets[p]) \subseteq csv.columns)
                                    => /\ ~e.raised
                                       /\ [k \in DOMAIN e.new_df |-> e.new_df[k].date]
                                            = PresetDates(csv, Presets[p])

\* a run that merged a literal file for the account whose preset id is the
\* id of no preset, and a file with the preset's columns for the account
\* that names a preset
C26_Witness ==
    /\ RunDone
    /\ \E d, c \in DOMAIN last.dirs :
          /\ Resolves(last.dirs[d].name) /\ Resolves(last.dirs[c].name)
          /\ AccountOfNumber(last.dirs[d].name).default_import_preset_id # 0
          /\ PresetsOfAccount(last.dirs[d].name) = {}
          /\ \E j \in DOMAIN last.dirs[d].files : MergedEntry(last.dirs[d].files[j])
          /\ PresetsOfAccount(last.dirs[c].name) # {}
          /\ \E j \in DOMAIN last.dirs[c].files : MergedEntry(last.dirs[c].files[j])


(***************************************************************************)
(* Merges of batches without a repeated id, each normalised for the        *)
(* account it is merged for (rows without a date kept, as the merge takes  *)
(* them).                                                                  *)
(***************************************************************************)
DistinctIds(df) == \A i, j \in DOMAIN df : i # j => df[i].id # df[j].id

MergeDistinctBatch ==
    /\ clock <= MaxClock
    /\ \E account_id \in DirNames, k \in DOMAIN Accounts, raw_df \in RawFiles :
          LET new_df == MapSeq(raw_df, LAMBDA raw : NormalizeRow(raw, Accounts[k], clock))
              r == delta_load_transactions(file, new_df, account_id)
          IN
          /\ Resolves(account_id) => Accounts[k].number = ParseInt(account_id).value
          /\ DistinctIds(new_df)
          /\ file' = r.file
          /\ clock' = clock + 1
          /\ last' = [NoOp EXCEPT !.op = "delta_load", !.pre = file,
                                  !.account_id = account_id, !.new_df = new_df,
                                  !.now = clock, !.outcome = r.outcome,
                                  !.result = r.result]
          /\ prev' = Summary(last)
          /\ UNCHANGED << pc, loc, events >>

NextDistinct == MergeDistinctBatch

SpecDistinct == Init /\ [][NextDistinct]_vars

PairDirNames == {"2", "7"}
PairRows == [date : Dates, amount : RawAmounts, description : {"a"}]
PairFiles == UNION { [1..n -> PairRows] : n \in 1..MaxRows }

\* the batch of a raw file of the directory account_id
BatchOf(account_id, raw_df, now) ==
    [account_id |-> account_id,
     new_df |-> normalize_to_canonical_schema(
                   raw_df, AccountRows(ParseInt(account_id).value)[1], now)]

\* delta_load_transactions for batch a, then for batch b
MergeBoth(f, a, b) ==
    delta_load_transactions(
        delta_load_transactions(f, a.new_df, a.account_id).file,
        b.new_df, b.account_id).file

\* a ledger to start from: one merge
SeedLedger ==
    /\ last.op = "none"
    /\ clock = 1
    /\ \E account_id \in PairDirNames, raw_df \in PairFiles :
          /\ file' = delta_load_transactions(
                        file, BatchOf(account_id, raw_df, 0).new_df, account_id).file
          /\ last' = [op |-> "seed", pre |-> file]
          /\ UNCHANGED << clock, prev, pc, loc, events >>

MergePair ==
    /\ clock = 1
    /\ \E a1, a2 \in PairDirNames, raw1, raw2 \in PairFiles :
          /\ file' = MergeBoth(file, BatchOf(a1, raw1, clock), BatchOf(a2, raw2, clock + 1))
          /\ clock' = clock + 2
          /\ last' = [op |-> "pair", pre |-> file,
                      a |-> BatchOf(a1, raw1, clock),
                      b |-> BatchOf(a2, raw2, clock + 1),
                      ab |-> MergeBoth(file, BatchOf(a1, raw1, clock),
                                             BatchOf(a2, raw2, clock + 1)),
                      ba |-> MergeBoth(file, BatchOf(a2, raw2, clock + 1),
                                             BatchOf(a1, raw1, clock))]
          /\ UNCHANGED << prev, pc, loc, events >>

NextCommute == SeedLedger \/ MergePair

SpecCommute == Init /\ [][NextCommute]_vars

PairDone == last.op = "pair"

\* the removal region of a batch: its account and the window of its dates
RegionAccount(batch) == AccountOfNumber(batch.account_id).id
RegionsDisjoint(a, b) ==
    \/ RegionAccount(a) # RegionAccount(b)
    \/ MaxOf(a.new_df) < MinOf(b.new_df)
    \/ MaxOf(b.new_df) < MinOf(a.new_df)

\* C28: two successful merges whose removal regions do not intersect
\* (different accounts, or one account and windows that do not overlap) give
\* the same ledger rows in either order; two merges for one account whose
\* windows overlap give different ledgers in the two orders.
C28_DisjointMergesCommute ==
    PairDone =>
        IF RegionsDisjoint(last.a, last.b)
        THEN SameBag(ReadCsv(last.ab.rows), ReadCsv(last.ba.rows))
        ELSE ~SameBag(ReadCsv(last.ab.rows), ReadCsv(last.ba.rows))

\* two merges for one account with windows apart, into a ledger that has a
\* row of the account inside the later window and one outside both
C28_Witness ==
    /\ PairDone
    /\ RegionAccount(last.a) = RegionAccount(last.b)
    /\ RegionsDisjoint(last.a, last.b)
    /\ last.ab = last.ba
    /\ \E i \in DOMAIN LedgerBefore : InWindowOf(LedgerBefore[i], last.b.account_id, last.b.new_df)
    /\ \E i \in DOMAIN LedgerBefore :
          /\ LedgerBefore[i].account_id = RegionAccount(last.a)
          /\ ~InWindowOf(LedgerBefore[i], last.a.account_id, last.a.new_df)
          /\ ~InWindowOf(LedgerBefore[i], last.b.account_id, last.b.new_df)

\* two merges for one account with overlapping windows: the rows of the
\* earlier batch in the later window are gone in either order
C28_WitnessOverlap ==
    /\ PairDone
    /\ ~RegionsDisjoint(last.a, last.b)
    /\ \E k \in DOMAIN last.a.new_df :
          InWindowOf(last.a.new_df[k], last.b.account_id, last.b.new_df)
    /\ \A i \in DOMAIN last.ab.rows :
          InWindowOf(last.ab.rows[i], last.b.account_id, last.b.new_df)
             => last.ab.rows[i].created_at = clock - 1


IdsOf(df) == [i \in DOMAIN df |-> df[i].id]

\* C29 (as claimed): a save or clear adds no row to the ledger and removes
\* none: the ids of the ledger after the edit are, with their multiplicities,
\* the ids before it, also when there was no ledger file when the page loaded
\* its data.
C29_EditKeepsIds ==
    Edited => SameBag(IdsOf(Ledger), IdsOf(LedgerBefore))

\* the same for the edits of a ledger file that was there
C29_EditKeepsIdsOfExistingLedger ==
    (Edited /\ last.pre.exists) => SameBag(IdsOf(Ledger), IdsOf(LedgerBefore))


(***************************************************************************)
(* One run of the page script step by step: the load at the top of show()  *)
(* (line 40), then the click handler (lines 247-261), while the pipeline   *)
(* merges files into the ledger.                                           *)
(***************************************************************************)
Page == "w1"
Pipeline == "w2"

PageLocals(f, transactions_df) == [at_load |-> f, loaded |-> transactions_df]

\* line 40: transactions_df = load_transactions()
PageLoad ==
    /\ pc[Page] = "idle"
    /\ clock <= MaxClock + 1
    /\ pc' = [pc EXCEPT ![Page] = "shown"]
    /\ loc' = [loc EXCEPT ![Page] = PageLocals(file, load_transactions(file))]
    /\ events' = Append(events, << "load", Page >>)
    /\ UNCHANGED << file, clock, last, prev >>

\* python etl.py on a directory with one file, at any time
MergeDuring ==
    /\ clock <= MaxClock
    /\ \E account_id \in DirNames, raw_df \in RawFiles :
          /\ process_account(file, account_id, raw_df, clock).outcome = "merged"
          /\ file' = process_account(file, account_id, raw_df, clock).file
          /\ clock' = clock + 1
          /\ last' = Record("process_account", file, account_id, raw_df, clock,
                            process_account(file, account_id, raw_df, clock))
          /\ prev' = Summary(last)
          /\ events' = Append(events, << "persist", Pipeline >>)
          /\ UNCHANGED << pc, loc >>

\* the frame read again from the file at the click
SnapshotReloaded(f, locals) == load_transactions(f)

\* transactions_df at the click: the frame line 40 loaded
Snapshot(f, locals) == locals.loaded

\* lines 247-253: the save button
PageSave ==
    /\ pc[Page] = "shown"
    /\ \E i \in DOMAIN loc[Page].loaded, selected_category \in CategoryIds :
          /\ file' = save_transactions(
                        SetCategory(Snapshot(file, loc[Page]),
                                    loc[Page].loaded[i].id, selected_category))
          /\ last' = RecordEdit("save", file, loc[Page].loaded,
                                loc[Page].loaded[i].id, selected_category, clock)
    /\ clock' = clock + 1
    /\ prev' = Summary(last)
    /\ pc' = [pc EXCEPT ![Page] = "idle"]
    /\ events' = Append(events, << "save", Page >>)
    /\ UNCHANGED loc

\* lines 256-261: the clear button of a categorised row
PageClear ==
    /\ pc[Page] = "shown"
    /\ \E i \in DOMAIN loc[Page].loaded :
          /\ loc[Page].loaded[i].category_id # NoCategory
          /\ file' = save_transactions(
                        SetCategory(Snapshot(file, loc[Page]),
                                    loc[Page].loaded[i].id, NoCategory))
          /\ last' = RecordEdit("clear", file, loc[Page].loaded,
                                loc[Page].loaded[i].id, NoCategory, clock)
    /\ clock' = clock + 1
    /\ prev' = Summary(last)
    /\ pc' = [pc EXCEPT ![Page] = "idle"]
    /\ events' = Append(events, << "save", Page >>)
    /\ UNCHANGED loc

NextPage == PageLoad \/ MergeDuring \/ PageSave \/ PageClear

SpecPage == Init /\ [][NextPage]_vars

\* the page has just written the file
PageWrote == Edited /\ Len(events) >= 2 /\ events[Len(events)] = << "save", Page >>

\* a merge persisted between the load of this run of the page and its write
MergeBetween == PageWrote /\ events[Len(events) - 1] = << "persist", Pipeline >>

Uncategorized(r) == [r EXCEPT !.category_id = NoCategory]
HoldsUpToCategory(df, r) == \E i \in DOMAIN df : Uncategorized(df[i]) = Uncategorized(r)

\* C30: the page writes back the whole snapshot it loaded.  When a merge
\* persisted between the load and the save, the ledger after the save is the
\* snapshot with the edit: the rows the merge added are not in it and the
\* rows the merge removed are back.  With no merge in between the save
\* changes the edited row only.
C30_SaveWritesLoadedSnapshot ==
    PageWrote =>
        /\ Ledger = ReadCsv(ToCsv(SetCategory(last.loaded, last.target, last.category)))
        /\ MergeBetween =>
              /\ \A i \in DOMAIN LedgerBefore :
                    ~HoldsUpToCategory(last.loaded, LedgerBefore[i])
                       => ~HoldsUpToCategory(Ledger, LedgerBefore[i])
              /\ \A k \in DOMAIN last.loaded : HoldsUpToCategory(Ledger, last.loaded[k])
        /\ (~MergeBetween /\ last.pre.exists) =>
              /\ Len(Ledger) = Len(LedgerBefore)
              /\ \A i \in DOMAIN LedgerBefore :
                    /\ Uncategorized(Ledger[i]) = Uncategorized(LedgerBefore[i])
                    /\ LedgerBefore[i].id # last.target => Ledger[i] = LedgerBefore[i]

\* a save after a merge that persisted since the load, added a row the
\* snapshot does not have and removed a row the snapshot has
C30_Witness ==
    /\ MergeBetween
    /\ loc[Page].at_load.exists
    /\ \E i \in DOMAIN LedgerBefore : ~HoldsUpToCategory(last.loaded, LedgerBefore[i])
    /\ \E k \in DOMAIN last.loaded : ~HoldsUpToCategory(LedgerBefore, last.loaded[k])

=============================================================================
